---- MODULE Spec2Model ----
(***************************************************************************)
(* rs-hack MCP server (mcp-example/server.py): the subprocess bridge       *)
(* run_rs_hack and the thirteen registered tools that build an argument    *)
(* vector for it and shape its result into a textual response.             *)
(*                                                                         *)
(* Text is a sequence of pieces.  A piece is either one character of a     *)
(* child's output stream or of an exception message, or one literal of     *)
(* server.py / one parameter value taken whole.  Concatenation is \o.      *)
(***************************************************************************)
EXTENDS Integers, Sequences, FiniteSets, TLC

\* Longest stdout of a child started by a direct call of run_rs_hack.
MaxLen == 3
\* Longest stdout of a child started by a tool.
MaxToolLen == 2
\* Longest stderr of a child.
MaxErrLen == 1
MaxDataLen == 4

\* Characters a child writes to stdout (ToolOutChars for the child of a tool)
\* and to stderr, and the texts of str(e).
OutChars == {" ", "{", "}", "[", "]", "x"}
ToolOutChars == {" ", "[", "]", "x"}
ErrChars == {" ", "e"}
ExcMessages == {<<>>, <<"m">>}
ExitCodes == {0, 1}

StrUpTo(A, n) == UNION {[1..k -> A] : k \in 0..n}

(***************************************************************************)
(* str.strip() and str.startswith()                                        *)
(***************************************************************************)
IsSpace(c) == c = " "

RECURSIVE LStrip(_)
LStrip(s) == IF s # <<>> /\ IsSpace(Head(s)) THEN LStrip(Tail(s)) ELSE s

RECURSIVE RStrip(_)
RStrip(s) ==
    IF s # <<>> /\ IsSpace(s[Len(s)]) THEN RStrip(SubSeq(s, 1, Len(s) - 1)) ELSE s

Strip(s) == RStrip(LStrip(s))

StartsWith(s, c) == Len(s) > 0 /\ s[1] = c

(***************************************************************************)
(* json.loads over the output alphabet: objects and arrays, whitespace     *)
(* between tokens.  A decoded value is a tagged record; JNull is the       *)
(* value None.                                                             *)
(***************************************************************************)
JNull == [t |-> "null"]
JDict == [t |-> "dict"]
JList(items) == [t |-> "list", items |-> items]

RECURSIVE SkipWs(_, _)
SkipWs(s, i) == IF i <= Len(s) /\ IsSpace(s[i]) THEN SkipWs(s, i + 1) ELSE i

ParseFail == [ok |-> FALSE, pos |-> 0, val |-> JNull]
ParseOk(pos, val) == [ok |-> TRUE, pos |-> pos, val |-> val]

RECURSIVE ParseValue(_, _)
ParseValue(s, i) ==
    IF i > Len(s) THEN ParseFail
    ELSE IF s[i] = "{" THEN
        LET j == SkipWs(s, i + 1)
        IN  IF j <= Len(s) /\ s[j] = "}" THEN ParseOk(j + 1, JDict) ELSE ParseFail
    ELSE IF s[i] = "[" THEN
        LET j == SkipWs(s, i + 1)
        IN  IF j <= Len(s) /\ s[j] = "]" THEN ParseOk(j + 1, JList(<<>>))
            ELSE LET r == ParseValue(s, j)
                     k == SkipWs(s, r.pos)
                 IN  IF r.ok /\ k <= Len(s) /\ s[k] = "]"
                     THEN ParseOk(k + 1, JList(<<r.val>>))
                     ELSE ParseFail
    ELSE ParseFail

\* json.loads(s): [ok |-> TRUE, val |-> v], or ok = FALSE for JSONDecodeError.
Loads(s) ==
    LET r == ParseValue(s, SkipWs(s, 1))
    IN  IF r.ok /\ SkipWs(s, r.pos) > Len(s) THEN r ELSE ParseFail

(***************************************************************************)
(* json.dumps(v, indent=2)                                                 *)
(***************************************************************************)
RECURSIVE Spaces(_)
Spaces(n) == IF n = 0 THEN <<>> ELSE <<" ">> \o Spaces(n - 1)

RECURSIVE DumpsAt(_, _)
DumpsAt(v, level) ==
    IF v.t = "null" THEN <<"n", "u", "l", "l">>
    ELSE IF v.t = "dict" THEN <<"{", "}">>
    ELSE IF v.items = <<>> THEN <<"[", "]">>
    ELSE <<"[", "\n">> \o Spaces(2 * (level + 1)) \o DumpsAt(v.items[1], level + 1)
         \o <<"\n">> \o Spaces(2 * level) \o <<"]">>

Dumps(v) == DumpsAt(v, 0)

(***************************************************************************)
(* run_rs_hack: the result for a completed child, and for an exception     *)
(***************************************************************************)
NotFoundHint == <<"rs-hack not found. Install with: cargo install rs-hack">>

\* x or y on strings
OrText(x, y) == IF x # <<>> THEN x ELSE y

\* ResultOfChild with the prefix test and the decoding applied to the raw
\* stdout, the strip forgotten.
ResultOfChild_Unstripped(returncode, stdout, stderr) ==
    LET dec == Loads(stdout)
    IN  IF (StartsWith(stdout, "{") \/ StartsWith(stdout, "[")) /\ dec.ok
        THEN [success |-> TRUE, data |-> dec.val]
        ELSE IF returncode = 0
        THEN [success |-> TRUE, output |-> stdout]
        ELSE [success |-> FALSE, error |-> OrText(Strip(stderr), Strip(stdout))]

\* ResultOfChild with the raw text kept next to the decoded data.
ResultOfChild_DataAndOutput(returncode, stdout, stderr) ==
    LET output == Strip(stdout)
        dec == Loads(output)
    IN  IF (StartsWith(output, "{") \/ StartsWith(output, "[")) /\ dec.ok
        THEN [success |-> TRUE, data |-> dec.val, output |-> output]
        ELSE IF returncode = 0
        THEN [success |-> TRUE, output |-> output]
        ELSE [success |-> FALSE, error |-> OrText(Strip(stderr), Strip(stdout))]

ResultOfChild(returncode, stdout, stderr) ==
    LET output == Strip(stdout)
        dec == Loads(output)
    IN  IF (StartsWith(output, "{") \/ StartsWith(output, "[")) /\ dec.ok
        THEN [success |-> TRUE, data |-> dec.val]
        ELSE IF returncode = 0
        THEN [success |-> TRUE, output |-> output]
        ELSE [success |-> FALSE, error |-> OrText(Strip(stderr), Strip(stdout))]

\* The exceptions subprocess.run raises, by the except clause that takes them:
\* FileNotFoundError, any other subclass of Exception, and the exceptions
\* outside Exception (KeyboardInterrupt, SystemExit), which no clause takes.
ExcKinds == {"FileNotFoundError", "Exception", "BaseException"}

Caught(kind) == kind \in {"FileNotFoundError", "Exception"}

\* ResultOfException with the FileNotFoundError clause missing.
ResultOfException_NoHint(kind, msg) == [success |-> FALSE, error |-> msg]

ResultOfException(kind, msg) ==
    IF kind = "FileNotFoundError"
    THEN [success |-> FALSE, error |-> NotFoundHint]
    ELSE [success |-> FALSE, error |-> msg]

(***************************************************************************)
(* Parameter values.  None is the absent optional argument.                *)
(***************************************************************************)
None == "None"
Truthy(v) == v # None /\ v # ""
OrStr(v, w) == IF Truthy(v) THEN v ELSE w
OptStr(v) == {None, "", v}

\* A parameter value inside an f-string.
TextOf(v) == IF v = "" THEN <<>> ELSE <<v>>

Paths == {"src/types.rs", "src/**/*.rs"}
Formats == {"snippets", "locations", "json"}
NodeTypes ==
    {"macro-call", "method-call", "function-call", "enum-usage",
     "struct-literal", "match-arm", "identifier", "type-ref"}
Actions == {"comment", "remove", "replace"}
TargetTypes == {"struct", "enum"}
Limits == {5, 10}
RunIds == {"a05a626", "b16b737"}

\* dict.get(key, default)
Get(d, key, default) == IF key \in DOMAIN d THEN d[key] ELSE default

\* ErrorResponse without the "Error: " prefix.
ErrorResponse_Bare(result) == result.error

ErrorResponse(result) == <<"Error: ">> \o result.error

Reminder == "\n\nUse apply=True to make changes."

\* The response of the four inspect_* tools.
InspectResponse(result) ==
    IF result.success
    THEN OrText(Get(result, "output", <<>>), Dumps(Get(result, "data", JNull)))
    ELSE ErrorResponse(result)

\* ApplyResponse with the test of apply missing: every success is a preview.
ApplyResponse_AlwaysPreview(result, apply, banner, confirmation) ==
    IF result.success
    THEN <<banner>> \o Get(result, "output", <<>>) \o <<Reminder>>
    ELSE ErrorResponse(result)

\* ApplyResponse falling back on the decoded data as the inspect tools do.
ApplyResponse_RendersData(result, apply, banner, confirmation) ==
    IF result.success
    THEN LET output == OrText(Get(result, "output", <<>>),
                              IF "data" \in DOMAIN result
                              THEN Dumps(result.data) ELSE <<>>)
         IN  IF ~apply
             THEN <<banner>> \o output \o <<Reminder>>
             ELSE OrText(output, confirmation)
    ELSE ErrorResponse(result)

\* The response of an apply-capable tool with the given banner and
\* confirmation message.
ApplyResponse(result, apply, banner, confirmation) ==
    IF result.success
    THEN LET output == Get(result, "output", <<>>)
         IN  IF ~apply
             THEN <<banner>> \o output \o <<Reminder>>
             ELSE OrText(output, confirmation)
    ELSE ErrorResponse(result)

ApplyFlag(apply) == IF apply THEN <<"--apply">> ELSE <<>>
\* Opt with "is not None" in place of the truth test.
Opt_NotNone(flag, v) == IF v # None THEN <<flag, v>> ELSE <<>>

Opt(flag, v) == IF Truthy(v) THEN <<flag, v>> ELSE <<>>

(***************************************************************************)
(* The tools: the parameters a client may send, the argument vector built  *)
(* from them and the response shaped from the bridge's result.             *)
(***************************************************************************)
inspect_struct_literals_params ==
    [path : Paths, name : OptStr("Shadow"), format : Formats]
inspect_struct_literals_args(p) ==
    <<"inspect", "--path", p.path, "--node-type", "struct-literal",
      "--format", p.format>> \o Opt("--name", p.name)
inspect_struct_literals_response(p, result) == InspectResponse(result)

inspect_match_arms_params ==
    [path : {"src/handler.rs"}, name : OptStr("Status::Active"), format : Formats]
inspect_match_arms_args(p) ==
    <<"inspect", "--path", p.path, "--node-type", "match-arm",
      "--format", p.format>> \o Opt("--name", p.name)
inspect_match_arms_response(p, result) == InspectResponse(result)

inspect_enum_usage_params ==
    [path : {"src/**/*.rs"}, name : {"", "Status::Active"}, format : Formats]
inspect_enum_usage_args(p) ==
    <<"inspect", "--path", p.path, "--node-type", "enum-usage",
      "--name", p.name, "--format", p.format>>
inspect_enum_usage_response(p, result) == InspectResponse(result)

inspect_macro_calls_params ==
    [path : {"src/**/*.rs"}, name : {"eprintln"},
     content_filter : OptStr("[DEBUG]"), format : Formats]
inspect_macro_calls_args(p) ==
    <<"inspect", "--path", p.path, "--node-type", "macro-call",
      "--name", p.name, "--format", p.format>>
    \o Opt("--content-filter", p.content_filter)
inspect_macro_calls_response(p, result) == InspectResponse(result)

add_struct_field_params ==
    [path : {"src/user.rs"}, struct_name : {"User"}, field : {"age: u32"},
     position : OptStr("after:name"), literal_default : OptStr("30"),
     apply : BOOLEAN]
add_struct_field_args(p) ==
    <<"add-struct-field", "--path", p.path, "--struct-name", p.struct_name,
      "--field", p.field>>
    \o Opt("--position", p.position)
    \o Opt("--literal-default", p.literal_default)
    \o ApplyFlag(p.apply)
add_struct_field_response(p, result) ==
    ApplyResponse(result, p.apply, "DRY RUN - Preview of changes:\n",
                  <<"Successfully added struct field">>)

update_struct_field_params ==
    [path : {"src/user.rs"}, struct_name : {"User"}, field : {"pub age: u32"},
     apply : BOOLEAN]
update_struct_field_args(p) ==
    <<"update-struct-field", "--path", p.path, "--struct-name", p.struct_name,
      "--field", p.field>> \o ApplyFlag(p.apply)
update_struct_field_response(p, result) ==
    ApplyResponse(result, p.apply, "DRY RUN - Preview:\n",
                  <<"Successfully updated struct field">>)

add_enum_variant_params ==
    [path : Paths, enum_name : {"Status", "Message"},
     variant : {"Archived", "Error { code: i32 }"}, apply : BOOLEAN]
\* add_enum_variant_args with the test of apply missing.
add_enum_variant_args_AlwaysApply(p) ==
    <<"add-enum-variant", "--path", p.path, "--enum-name", p.enum_name,
      "--variant", p.variant, "--apply">>

add_enum_variant_args(p) ==
    <<"add-enum-variant", "--path", p.path, "--enum-name", p.enum_name,
      "--variant", p.variant>> \o ApplyFlag(p.apply)
add_enum_variant_response(p, result) ==
    ApplyResponse(result, p.apply, "DRY RUN - Preview:\n",
                  <<"Successfully added enum variant">>)

rename_enum_variant_params ==
    [path : {"src/**/*.rs"}, enum_name : {"Status"}, old_variant : {"", "Draft"},
     new_variant : {"Pending"}, apply : BOOLEAN]
rename_enum_variant_args(p) ==
    <<"rename-enum-variant", "--paths", p.path, "--enum-name", p.enum_name,
      "--old-variant", p.old_variant, "--new-variant", p.new_variant>>
    \o ApplyFlag(p.apply)
rename_enum_variant_response(p, result) ==
    ApplyResponse(result, p.apply, "DRY RUN - Preview:\n",
                  <<"Successfully renamed ">> \o TextOf(p.old_variant)
                  \o <<" to ">> \o TextOf(p.new_variant))

add_match_arm_params ==
    [path : {"src/handler.rs"}, pattern : {"", "Status::Archived"},
     body : {"todo!()"}, function : OptStr("handle_status"),
     enum_name : OptStr("Status"), auto_detect : BOOLEAN, apply : BOOLEAN]
\* add_match_arm_args with the pattern forwarded before the branch.
add_match_arm_args_PatternAlways(p) ==
    <<"add-match-arm", "--path", p.path, "--pattern", p.pattern>>
    \o (IF p.auto_detect
        THEN <<"--auto-detect", "--enum-name", OrStr(p.enum_name, ""),
               "--body", p.body>> \o Opt("--function", p.function)
        ELSE <<"--body", p.body>> \o Opt("--function", p.function))
    \o ApplyFlag(p.apply)

add_match_arm_args(p) ==
    <<"add-match-arm", "--path", p.path>>
    \o (IF p.auto_detect
        THEN <<"--auto-detect", "--enum-name", OrStr(p.enum_name, ""),
               "--body", p.body>> \o Opt("--function", p.function)
        ELSE <<"--pattern", p.pattern, "--body", p.body>>
             \o Opt("--function", p.function))
    \o ApplyFlag(p.apply)
add_match_arm_response(p, result) ==
    ApplyResponse(result, p.apply, "DRY RUN - Preview:\n",
                  <<"Successfully added match arm(s)">>)

transform_params ==
    [path : {"src/**/*.rs"}, node_type : {"function-call"},
     action : Actions, name : OptStr("eprintln"),
     content_filter : OptStr("[DEBUG]"), replacement : OptStr("new_fn"),
     apply : BOOLEAN]
transform_args(p) ==
    <<"transform", "--path", p.path, "--node-type", p.node_type,
      "--action", p.action>>
    \o Opt("--name", p.name)
    \o Opt("--content-filter", p.content_filter)
    \o (IF p.action = "replace" /\ Truthy(p.replacement)
        THEN <<"--with", p.replacement>> ELSE <<>>)
    \o ApplyFlag(p.apply)
transform_response(p, result) ==
    ApplyResponse(result, p.apply, "DRY RUN - Preview:\n",
                  <<"Successfully performed ">> \o TextOf(p.action)
                  \o <<" operation">>)

add_derive_params ==
    [path : {"src/models.rs"}, target_type : TargetTypes, name : {"User"},
     derives : {"Clone,Debug"}, where_filter : OptStr("derives_trait:Clone"),
     apply : BOOLEAN]
add_derive_args(p) ==
    <<"add-derive", "--path", p.path, "--target-type", p.target_type,
      "--name", p.name, "--derives", p.derives>>
    \o Opt("--where", p.where_filter)
    \o ApplyFlag(p.apply)
add_derive_response(p, result) ==
    ApplyResponse(result, p.apply, "DRY RUN - Preview:\n",
                  <<"Successfully added derives">>)

show_history_params == [limit : Limits]
show_history_args(p) == <<"history", "--limit", ToString(p.limit)>>
show_history_response(p, result) ==
    IF result.success
    THEN OrText(Get(result, "output", <<>>), <<"No history available">>)
    ELSE ErrorResponse(result)

revert_operation_params == [run_id : RunIds, force : BOOLEAN]
\* revert_operation_args with the test of force missing.
revert_operation_args_AlwaysForce(p) == <<"revert", p.run_id, "--force">>

revert_operation_args(p) ==
    <<"revert", p.run_id>> \o (IF p.force THEN <<"--force">> ELSE <<>>)
revert_operation_response(p, result) ==
    IF result.success
    THEN OrText(Get(result, "output", <<>>),
                <<"Successfully reverted operation ">> \o TextOf(p.run_id))
    ELSE ErrorResponse(result)

\* run_rs_hack called without a tool, as the tests of the bridge call it.
DirectArgs ==
    {<<"--version">>, <<"invalid-command">>, <<"history", "--limit", "5">>}

InspectTools ==
    {"inspect_struct_literals", "inspect_match_arms", "inspect_enum_usage",
     "inspect_macro_calls"}
ApplyTools ==
    {"add_struct_field", "update_struct_field", "add_enum_variant",
     "rename_enum_variant", "add_match_arm", "transform", "add_derive"}
Tools == InspectTools \cup ApplyTools \cup {"show_history", "revert_operation"}

\* The return statement of tool t.
Response(t, p, result) ==
    CASE t = "inspect_struct_literals" -> inspect_struct_literals_response(p, result)
      [] t = "inspect_match_arms" -> inspect_match_arms_response(p, result)
      [] t = "inspect_enum_usage" -> inspect_enum_usage_response(p, result)
      [] t = "inspect_macro_calls" -> inspect_macro_calls_response(p, result)
      [] t = "add_struct_field" -> add_struct_field_response(p, result)
      [] t = "update_struct_field" -> update_struct_field_response(p, result)
      [] t = "add_enum_variant" -> add_enum_variant_response(p, result)
      [] t = "rename_enum_variant" -> rename_enum_variant_response(p, result)
      [] t = "add_match_arm" -> add_match_arm_response(p, result)
      [] t = "transform" -> transform_response(p, result)
      [] t = "add_derive" -> add_derive_response(p, result)
      [] t = "show_history" -> show_history_response(p, result)
      [] t = "revert_operation" -> revert_operation_response(p, result)
      [] OTHER -> <<>>

(***************************************************************************)
(* State: the requests the host serves.  Nothing is shared between them.   *)
(***************************************************************************)
Reqs == {"r1"}

VARIABLES
    pc,        \* idle, bridge (in run_rs_hack, before the child starts),
               \* waiting (subprocess.run blocks on the child), done
               \* (returned), propagated (left by an exception)
    tool,      \* the tool called, or "run_rs_hack" for a direct call
    params,    \* the tool's keyword arguments
    args,      \* the argument list handed to run_rs_hack
    cmd,       \* the command line of the child, once started
    invoked,   \* calls of subprocess.run made for this call
    spawned,   \* children started for this call
    child,     \* returncode, stdout and stderr of the completed child
    exc,       \* the exception subprocess.run raised
    result,    \* the dict run_rs_hack returned
    response   \* the string the tool returned

vars ==
    <<pc, tool, params, args, cmd, invoked, spawned, child, exc, result, response>>

NoTool == "none"
NoParams == [absent |-> TRUE]
NoChild == [absent |-> TRUE]
NoExc == [absent |-> TRUE]
NoResult == [absent |-> TRUE]

\* The server is up and the requests in R have not called anything yet.
InitOf(R) ==
    /\ pc = [r \in R |-> "idle"]
    /\ tool = [r \in R |-> NoTool]
    /\ params = [r \in R |-> NoParams]
    /\ args = [r \in R |-> <<>>]
    /\ cmd = [r \in R |-> <<>>]
    /\ invoked = [r \in R |-> 0]
    /\ spawned = [r \in R |-> 0]
    /\ child = [r \in R |-> NoChild]
    /\ exc = [r \in R |-> NoExc]
    /\ result = [r \in R |-> NoResult]
    /\ response = [r \in R |-> <<>>]

Init == InitOf(Reqs)

\* A tool is called: it builds its argument list and calls run_rs_hack.
Enter(r, t, p, a) ==
    /\ pc' = [pc EXCEPT ![r] = "bridge"]
    /\ tool' = [tool EXCEPT ![r] = t]
    /\ params' = [params EXCEPT ![r] = p]
    /\ args' = [args EXCEPT ![r] = a]
    /\ UNCHANGED <<cmd, invoked, spawned, child, exc, result, response>>

inspect_struct_literals(r) ==
    /\ pc[r] = "idle"
    /\ \E p \in inspect_struct_literals_params :
           Enter(r, "inspect_struct_literals", p, inspect_struct_literals_args(p))

inspect_match_arms(r) ==
    /\ pc[r] = "idle"
    /\ \E p \in inspect_match_arms_params :
           Enter(r, "inspect_match_arms", p, inspect_match_arms_args(p))

inspect_enum_usage(r) ==
    /\ pc[r] = "idle"
    /\ \E p \in inspect_enum_usage_params :
           Enter(r, "inspect_enum_usage", p, inspect_enum_usage_args(p))

inspect_macro_calls(r) ==
    /\ pc[r] = "idle"
    /\ \E p \in inspect_macro_calls_params :
           Enter(r, "inspect_macro_calls", p, inspect_macro_calls_args(p))

add_struct_field(r) ==
    /\ pc[r] = "idle"
    /\ \E p \in add_struct_field_params :
           Enter(r, "add_struct_field", p, add_struct_field_args(p))

update_struct_field(r) ==
    /\ pc[r] = "idle"
    /\ \E p \in update_struct_field_params :
           Enter(r, "update_struct_field", p, update_struct_field_args(p))

add_enum_variant(r) ==
    /\ pc[r] = "idle"
    /\ \E p \in add_enum_variant_params :
           Enter(r, "add_enum_variant", p, add_enum_variant_args(p))

rename_enum_variant(r) ==
    /\ pc[r] = "idle"
    /\ \E p \in rename_enum_variant_params :
           Enter(r, "rename_enum_variant", p, rename_enum_variant_args(p))

add_match_arm(r) ==
    /\ pc[r] = "idle"
    /\ \E p \in add_match_arm_params :
           Enter(r, "add_match_arm", p, add_match_arm_args(p))

transform(r) ==
    /\ pc[r] = "idle"
    /\ \E p \in transform_params :
           Enter(r, "transform", p, transform_args(p))

add_derive(r) ==
    /\ pc[r] = "idle"
    /\ \E p \in add_derive_params :
           Enter(r, "add_derive", p, add_derive_args(p))

show_history(r) ==
    /\ pc[r] = "idle"
    /\ \E p \in show_history_params :
           Enter(r, "show_history", p, show_history_args(p))

revert_operation(r) ==
    /\ pc[r] = "idle"
    /\ \E p \in revert_operation_params :
           Enter(r, "revert_operation", p, revert_operation_args(p))

\* run_rs_hack called directly with an argument list.
run_rs_hack(r) ==
    /\ pc[r] = "idle"
    /\ \E a \in DirectArgs : Enter(r, "run_rs_hack", [args |-> a], a)

\* Return with the result and the response kept in module-level globals
\* that every request in flight sees.
Return_Shared(r, res) ==
    /\ pc' = [pc EXCEPT ![r] = "done"]
    /\ result' = [q \in DOMAIN result |->
                     IF q = r \/ pc[q] # "idle" THEN res ELSE result[q]]
    /\ response' = [q \in DOMAIN response |->
                       IF q = r \/ pc[q] # "idle"
                       THEN Response(tool[r], params[r], res)
                       ELSE response[q]]

\* run_rs_hack returns res: a tool shapes it into its response.
Return(r, res) ==
    /\ pc' = [pc EXCEPT ![r] = "done"]
    /\ result' = [result EXCEPT ![r] = res]
    /\ response' = [response EXCEPT ![r] = Response(tool[r], params[r], res)]

\* subprocess.run starts the child ["rs-hack"] + args and blocks on it.
StartChild(r) ==
    /\ pc[r] = "bridge"
    /\ pc' = [pc EXCEPT ![r] = "waiting"]
    /\ cmd' = [cmd EXCEPT ![r] = <<"rs-hack">> \o args[r]]
    /\ invoked' = [invoked EXCEPT ![r] = @ + 1]
    /\ spawned' = [spawned EXCEPT ![r] = @ + 1]
    /\ UNCHANGED <<tool, params, args, child, exc, result, response>>

\* What the child of a call by t may write to stdout.
Stdouts(t) ==
    IF t = "run_rs_hack"
    THEN StrUpTo(OutChars, MaxLen)
    ELSE StrUpTo(ToolOutChars, MaxToolLen)

\* The child completes, having written one of outs to stdout and one of
\* errs to stderr: the rest of run_rs_hack and of the tool run.
ChildExitWith(r, outs, errs) ==
    /\ pc[r] = "waiting"
    /\ \E returncode \in ExitCodes, stdout \in outs, stderr \in errs :
          /\ child' = [child EXCEPT ![r] =
                 [returncode |-> returncode, stdout |-> stdout, stderr |-> stderr]]
          /\ Return(r, ResultOfChild(returncode, stdout, stderr))
    /\ UNCHANGED <<tool, params, args, cmd, invoked, spawned, exc>>

ChildExit(r) ==
    ChildExitWith(r, Stdouts(tool[r]), StrUpTo(ErrChars, MaxErrLen))

\* Raise with one more attempt after the first caught exception.
Raise_Retry(r) ==
    /\ pc[r] \in {"bridge", "waiting"}
    /\ \E kind \in ExcKinds, msg \in ExcMessages :
          /\ kind = "FileNotFoundError" => pc[r] = "bridge"
          /\ exc' = [exc EXCEPT ![r] = [kind |-> kind, msg |-> msg]]
          /\ IF Caught(kind) /\ invoked[r] + (IF pc[r] = "bridge" THEN 1 ELSE 0) < 2
             THEN /\ pc' = [pc EXCEPT ![r] = "bridge"]
                  /\ UNCHANGED <<result, response>>
             ELSE IF Caught(kind)
             THEN Return(r, ResultOfException(kind, msg))
             ELSE /\ pc' = [pc EXCEPT ![r] = "propagated"]
                  /\ UNCHANGED <<result, response>>
    /\ invoked' = [invoked EXCEPT ![r] = IF pc[r] = "bridge" THEN @ + 1 ELSE @]
    /\ UNCHANGED <<tool, params, args, cmd, spawned, child>>

\* subprocess.run raises: the executable is not found (before any child
\* starts), or another exception while starting or waiting for the child.
\* It is called without a timeout, so no exception stands for one.
Raise(r) ==
    /\ pc[r] \in {"bridge", "waiting"}
    /\ \E kind \in ExcKinds, msg \in ExcMessages :
          /\ kind = "FileNotFoundError" => pc[r] = "bridge"
          /\ exc' = [exc EXCEPT ![r] = [kind |-> kind, msg |-> msg]]
          /\ IF Caught(kind)
             THEN Return(r, ResultOfException(kind, msg))
             ELSE /\ pc' = [pc EXCEPT ![r] = "propagated"]
                  /\ UNCHANGED <<result, response>>
    /\ invoked' = [invoked EXCEPT ![r] = IF pc[r] = "bridge" THEN @ + 1 ELSE @]
    /\ UNCHANGED <<tool, params, args, cmd, spawned, child>>

\* The host hands the outcome to the client; the request is over.
Deliver(r) ==
    /\ pc[r] \in {"done", "propagated"}
    /\ pc' = [pc EXCEPT ![r] = "idle"]
    /\ tool' = [tool EXCEPT ![r] = NoTool]
    /\ params' = [params EXCEPT ![r] = NoParams]
    /\ args' = [args EXCEPT ![r] = <<>>]
    /\ cmd' = [cmd EXCEPT ![r] = <<>>]
    /\ invoked' = [invoked EXCEPT ![r] = 0]
    /\ spawned' = [spawned EXCEPT ![r] = 0]
    /\ child' = [child EXCEPT ![r] = NoChild]
    /\ exc' = [exc EXCEPT ![r] = NoExc]
    /\ result' = [result EXCEPT ![r] = NoResult]
    /\ response' = [response EXCEPT ![r] = <<>>]

Next ==
    \E r \in Reqs :
        \/ inspect_struct_literals(r)
        \/ inspect_match_arms(r)
        \/ inspect_enum_usage(r)
        \/ inspect_macro_calls(r)
        \/ add_struct_field(r)
        \/ update_struct_field(r)
        \/ add_enum_variant(r)
        \/ rename_enum_variant(r)
        \/ add_match_arm(r)
        \/ transform(r)
        \/ add_derive(r)
        \/ show_history(r)
        \/ revert_operation(r)
        \/ run_rs_hack(r)
        \/ StartChild(r)
        \/ ChildExit(r)
        \/ Raise(r)
        \/ Deliver(r)

Spec == Init /\ [][Next]_vars

(***************************************************************************)
(* Two requests served at once.  The tools are plain functions whose only  *)
(* state is local, and the one module-level object, the tool registry, is  *)
(* not written after import; the host may interleave the calls in any way. *)
(***************************************************************************)
ConcReqs == {"r1", "r2"}
ConcStdouts == {<<>>, <<"x">>, <<"[", "]">>}
ConcStderrs == {<<>>, <<"e">>}

InitConc == InitOf(ConcReqs)

NextConc ==
    \E r \in ConcReqs :
        \/ /\ inspect_struct_literals(r)
           /\ params'[r] = [path |-> "src/types.rs", name |-> None, format |-> "json"]
        \/ /\ add_enum_variant(r)
           /\ params'[r].path = "src/types.rs"
           /\ params'[r].enum_name = "Status"
           /\ params'[r].variant = "Archived"
        \/ StartChild(r)
        \/ ChildExitWith(r, ConcStdouts, ConcStderrs)
        \/ Raise(r)
        \/ Deliver(r)

SpecConc == InitConc /\ [][NextConc]_vars

(***************************************************************************)
(* One request whose child writes brackets and braces only, so that        *)
(* nested JSON values reach every tool.                                    *)
(***************************************************************************)
DataStdouts ==
    StrUpTo({"[", "]"}, MaxDataLen)
    \cup {<<"{", "}">>, <<"[", "{", "}", "]">>, <<"{", "]">>}
DataStderrs == {<<>>, <<"e">>}

NextData ==
    \E r \in Reqs :
        \/ inspect_struct_literals(r)
        \/ inspect_match_arms(r)
        \/ inspect_enum_usage(r)
        \/ inspect_macro_calls(r)
        \/ add_struct_field(r)
        \/ update_struct_field(r)
        \/ add_enum_variant(r)
        \/ rename_enum_variant(r)
        \/ add_match_arm(r)
        \/ transform(r)
        \/ add_derive(r)
        \/ show_history(r)
        \/ revert_operation(r)
        \/ StartChild(r)
        \/ ChildExitWith(r, DataStdouts, DataStderrs)
        \/ Raise(r)
        \/ Deliver(r)

SpecData == Init /\ [][NextData]_vars

(***************************************************************************)
(* Properties of run_rs_hack                                               *)
(***************************************************************************)
Returned(r) == pc[r] = "done"
ChildCompleted(r) == Returned(r) /\ child[r] # NoChild

\* t is s without its leading and trailing spaces.
IsTrimOf(t, s) ==
    \E i, j \in 0..Len(s) :
        /\ i + j <= Len(s)
        /\ t = SubSeq(s, i + 1, Len(s) - j)
        /\ \A k \in 1..i : s[k] = " "
        /\ \A k \in (Len(s) - j + 1)..Len(s) : s[k] = " "
        /\ t # <<>> => (t[1] # " " /\ t[Len(t)] # " ")

TrimOf(s) == CHOOSE t \in {SubSeq(s, a, b) : a \in 1..(Len(s) + 1), b \in 0..Len(s)} :
                 IsTrimOf(t, s)

\* The JSON documents of at most n characters with the value each denotes:
\* {} and [] with spaces inside, and an array around a shorter document.
RECURSIVE JsonDocs(_)
JsonDocs(n) ==
    IF n < 2 THEN {}
    ELSE {<<<<"{">> \o Spaces(k) \o <<"}">>, JDict>> : k \in 0..(n - 2)}
         \cup {<<<<"[">> \o Spaces(k) \o <<"]">>, JList(<<>>)>> : k \in 0..(n - 2)}
         \cup {<<<<"[">> \o Spaces(x[2]) \o x[1][1] \o Spaces(x[3]) \o <<"]">>,
                 JList(<<x[1][2]>>)>> :
               x \in {y \in JsonDocs(n - 2) \X (0..(n - 2)) \X (0..(n - 2)) :
                        Len(y[1][1]) + y[2] + y[3] + 2 <= n}}

IsJson(t) == \E d \in JsonDocs(Len(t)) : d[1] = t
ValueOf(t) == (CHOOSE d \in JsonDocs(Len(t)) : d[1] = t)[2]

LooksLikeJson(t) == t # <<>> /\ t[1] \in {"{", "["}

\* C1 (as claimed): whenever the child completes with a non-zero exit code,
\* whatever it wrote, run_rs_hack returns success = False with the trimmed
\* stderr as error, or the trimmed stdout when the trimmed stderr is empty.
C1_NonZeroExitIsFailure ==
    \A r \in Reqs :
        (ChildCompleted(r) /\ child[r].returncode # 0) =>
            /\ DOMAIN result[r] = {"success", "error"}
            /\ result[r].success = FALSE
            /\ result[r].error =
                   (IF TrimOf(child[r].stderr) # <<>>
                    THEN TrimOf(child[r].stderr)
                    ELSE TrimOf(child[r].stdout))

\* C2: when the child exits with code 0 and its trimmed stdout starts with
\* "{" or "[", the result is success with the decoded value under data (and
\* no output) if the trimmed stdout is valid JSON, and success with the
\* trimmed stdout under output (and no data) if it is not.
C2_ExitZeroJsonOrText ==
    \A r \in Reqs :
        (ChildCompleted(r) /\ child[r].returncode = 0
         /\ LooksLikeJson(TrimOf(child[r].stdout))) =>
            LET t == TrimOf(child[r].stdout)
            IN  IF IsJson(t)
                THEN result[r] = [success |-> TRUE, data |-> ValueOf(t)]
                ELSE result[r] = [success |-> TRUE, output |-> t]

\* C2 witness: a child that exited 0 with JSON surrounded by spaces on stdout
\* has been decoded.
C2_Witness ==
    \E r \in Reqs :
        /\ ChildCompleted(r) /\ child[r].returncode = 0
        /\ TrimOf(child[r].stdout) # child[r].stdout
        /\ IsJson(TrimOf(child[r].stdout))
        /\ "data" \in DOMAIN result[r]

\* C3 (as claimed): every exception of subprocess.run ends in a failure
\* result, the installation hint for a missing executable and the
\* exception's text otherwise; none leaves run_rs_hack.
C3_NoExceptionPropagates ==
    \A r \in Reqs :
        exc[r] # NoExc =>
            /\ pc[r] = "done"
            /\ result[r] =
                   [success |-> FALSE,
                    error |-> IF exc[r].kind = "FileNotFoundError"
                              THEN NotFoundHint ELSE exc[r].msg]

\* C3 (amended): a missing executable ends in the failure result with the
\* installation hint, any other exception derived from Exception in the
\* failure result with the exception's text, and only an exception outside
\* Exception (KeyboardInterrupt, SystemExit) leaves run_rs_hack, with no
\* result.
C3_ExceptionsByClass ==
    \A r \in Reqs :
        exc[r] # NoExc =>
            CASE exc[r].kind = "FileNotFoundError" ->
                     /\ pc[r] = "done"
                     /\ spawned[r] = 0
                     /\ result[r] = [success |-> FALSE,
                                     error |-> <<"rs-hack not found. Install with: cargo install rs-hack">>]
              [] exc[r].kind = "Exception" ->
                     /\ pc[r] = "done"
                     /\ result[r] = [success |-> FALSE, error |-> exc[r].msg]
              [] OTHER ->
                     /\ pc[r] = "propagated"
                     /\ result[r] = NoResult

\* C3 witness: the executable was not found and run_rs_hack has returned.
C3_Witness ==
    \E r \in Reqs :
        /\ pc[r] = "done"
        /\ exc[r] # NoExc
        /\ exc[r].kind = "FileNotFoundError"
        /\ exc[r].msg # <<>>

\* C5: every result run_rs_hack returns has exactly one of three shapes:
\* success = True with data only, success = True with output only, or
\* success = False with error only.
C5_ResultShape ==
    \A r \in Reqs :
        /\ Returned(r) =>
              \/ DOMAIN result[r] = {"success", "data"} /\ result[r].success = TRUE
              \/ DOMAIN result[r] = {"success", "output"} /\ result[r].success = TRUE
              \/ DOMAIN result[r] = {"success", "error"} /\ result[r].success = FALSE
        /\ ~Returned(r) => result[r] = NoResult

\* C5 witness: a child that exited non-zero with JSON on stdout has produced
\* a result.
C5_Witness ==
    \E r \in Reqs :
        /\ ChildCompleted(r)
        /\ child[r].returncode # 0
        /\ IsJson(TrimOf(child[r].stdout))

(***************************************************************************)
(* Properties of the tools                                                 *)
(***************************************************************************)
Range(a) == {a[i] : i \in 1..Len(a)}
Called(r) == tool[r] \in Tools
Failed(r) == Returned(r) /\ ~result[r].success
Succeeded(r) == Returned(r) /\ result[r].success

DryRunBanners == {"DRY RUN - Preview of changes:\n", "DRY RUN - Preview:\n"}
HasBanner(text) == \E i \in 1..Len(text) : text[i] \in DryRunBanners

\* C4: an apply-capable tool whose bridge call succeeded (with text or with
\* data) and whose apply is False answers with the DRY RUN banner first and
\* the reminder "Use apply=True to make changes." last; with apply True, or
\* with a failed bridge call, its response carries no banner.
C4_DryRunBanner ==
    \A r \in Reqs :
        (Returned(r) /\ tool[r] \in ApplyTools) =>
            IF result[r].success /\ ~params[r].apply
            THEN /\ Len(response[r]) >= 2
                 /\ response[r][1] \in DryRunBanners
                 /\ response[r][Len(response[r])] = "\n\nUse apply=True to make changes."
            ELSE ~HasBanner(response[r])

\* C4 witness: an apply-capable tool called without apply got decoded data
\* back from the bridge and has answered with the banner.
C4_Witness ==
    \E r \in Reqs :
        /\ Returned(r) /\ tool[r] \in ApplyTools
        /\ ~params[r].apply
        /\ "data" \in DOMAIN result[r]
        /\ HasBanner(response[r])

Confirmations(t, p) ==
    CASE t = "add_struct_field" -> {<<"Successfully added struct field">>}
      [] t = "update_struct_field" -> {<<"Successfully updated struct field">>}
      [] t = "add_enum_variant" -> {<<"Successfully added enum variant">>}
      [] t = "rename_enum_variant" ->
             {<<"Successfully renamed ">> \o TextOf(p.old_variant) \o <<" to ">>
              \o TextOf(p.new_variant)}
      [] t = "add_match_arm" -> {<<"Successfully added match arm(s)">>}
      [] t = "transform" ->
             {<<"Successfully performed ">> \o TextOf(p.action) \o <<" operation">>}
      [] t = "add_derive" -> {<<"Successfully added derives">>}
      [] t = "show_history" -> {<<"No history available">>}
      [] t = "revert_operation" ->
             {<<"Successfully reverted operation ">> \o TextOf(p.run_id)}
      [] OTHER -> {}

\* What the claim allows a tool to answer on success: the output text, the
\* rendering of the decoded data, or the confirmation when the output is
\* empty.
Answers(t, p, res) ==
    LET output == Get(res, "output", <<>>)
    IN  {output}
        \cup (IF "data" \in DOMAIN res THEN {Dumps(res.data)} ELSE {})
        \cup (IF output = <<>> THEN Confirmations(t, p) ELSE {})

\* C7 (as claimed): on every bridge success the tool's response is the output
\* text, a rendering of the decoded data or the tool's fixed confirmation
\* message when the output is empty; for an apply-capable tool in dry-run,
\* one of these between the banner and the reminder.
C7_SuccessResponses ==
    \A r \in Reqs :
        (Called(r) /\ Succeeded(r)) =>
            IF tool[r] \in ApplyTools /\ ~params[r].apply
            THEN \E b \in DryRunBanners, x \in Answers(tool[r], params[r], result[r]) :
                     response[r] = <<b>> \o x \o <<"\n\nUse apply=True to make changes.">>
            ELSE response[r] \in Answers(tool[r], params[r], result[r])

\* C8: add_enum_variant hands the bridge exactly add-enum-variant, --path,
\* path, --enum-name, enum_name, --variant, variant, followed by --apply
\* when apply is True and by nothing otherwise; for every apply-capable tool
\* --apply is in the argument vector iff apply is True, once and last.
C8_ApplyFlag ==
    \A r \in Reqs :
        /\ tool[r] = "add_enum_variant" =>
              args[r] = <<"add-enum-variant", "--path", params[r].path,
                          "--enum-name", params[r].enum_name,
                          "--variant", params[r].variant>>
                        \o (IF params[r].apply THEN <<"--apply">> ELSE <<>>)
        /\ tool[r] \in ApplyTools =>
              /\ ("--apply" \in Range(args[r])) <=> params[r].apply
              /\ params[r].apply =>
                    {i \in 1..Len(args[r]) : args[r][i] = "--apply"} = {Len(args[r])}

\* C8 witness: add_enum_variant("src/types.rs", "Status", "Archived",
\* apply=True) has called the bridge.
C8_Witness ==
    \E r \in Reqs :
        /\ tool[r] = "add_enum_variant" /\ pc[r] = "waiting"
        /\ params[r] = [path |-> "src/types.rs", enum_name |-> "Status",
                        variant |-> "Archived", apply |-> TRUE]
        /\ cmd[r] = <<"rs-hack", "add-enum-variant", "--path", "src/types.rs",
                      "--enum-name", "Status", "--variant", "Archived", "--apply">>

\* C9: revert_operation hands the bridge exactly revert, run_id, followed by
\* --force when force is True and by nothing otherwise.
C9_RevertArgs ==
    \A r \in Reqs :
        tool[r] = "revert_operation" =>
            args[r] = IF params[r].force
                      THEN <<"revert", params[r].run_id, "--force">>
                      ELSE <<"revert", params[r].run_id>>

\* C9 witness: revert_operation("a05a626") without force has called the
\* bridge with revert, a05a626.
C9_Witness ==
    \E r \in Reqs :
        /\ tool[r] = "revert_operation" /\ pc[r] = "waiting"
        /\ params[r] = [run_id |-> "a05a626", force |-> FALSE]
        /\ cmd[r] = <<"rs-hack", "revert", "a05a626">>

HasFlag(a, flag) == flag \in Range(a)
HasPair(a, flag, v) == \E i \in 1..(Len(a) - 1) : a[i] = flag /\ a[i + 1] = v
Provided(v) == v # "None" /\ v # ""

\* The optional string parameters, by tool: <<tool, parameter, flag>>.
PlainOptionals ==
    {<<"inspect_struct_literals", "name", "--name">>,
     <<"inspect_match_arms", "name", "--name">>,
     <<"inspect_macro_calls", "content_filter", "--content-filter">>,
     <<"add_struct_field", "position", "--position">>,
     <<"add_struct_field", "literal_default", "--literal-default">>,
     <<"add_match_arm", "function", "--function">>,
     <<"transform", "name", "--name">>,
     <<"transform", "content_filter", "--content-filter">>,
     <<"add_derive", "where_filter", "--where">>}
Optionals ==
    PlainOptionals
    \cup {<<"add_match_arm", "enum_name", "--enum-name">>,
          <<"transform", "replacement", "--with">>}

ForwardedIffProvided(r, e) ==
    /\ HasFlag(args[r], e[3]) <=> Provided(params[r][e[2]])
    /\ Provided(params[r][e[2]]) => HasPair(args[r], e[3], params[r][e[2]])
    /\ ~HasPair(args[r], e[3], "")

\* C10 (as claimed): for every tool and every optional string parameter, the
\* parameter's flag and value are in the argument vector iff the parameter
\* was provided and is non-empty; no such flag is forwarded with an empty
\* value and no provided value is dropped.
C10_OptionalFlags ==
    \A r \in Reqs : \A e \in Optionals :
        tool[r] = e[1] => ForwardedIffProvided(r, e)

\* C10 (amended): that holds for name, content_filter, position,
\* literal_default, function and where_filter.  transform forwards --with
\* and replacement iff replacement is non-empty and action is "replace".
\* add_match_arm forwards --enum-name iff auto_detect is True, with
\* enum_name as its value, or the empty string when enum_name is absent or
\* empty.
C10_OptionalFlagsByParameter ==
    \A r \in Reqs :
        /\ \A e \in PlainOptionals : tool[r] = e[1] => ForwardedIffProvided(r, e)
        /\ tool[r] = "transform" =>
              LET fwd == Provided(params[r].replacement) /\ params[r].action = "replace"
              IN  /\ HasFlag(args[r], "--with") <=> fwd
                  /\ fwd => HasPair(args[r], "--with", params[r].replacement)
        /\ tool[r] = "add_match_arm" =>
              /\ HasFlag(args[r], "--enum-name") <=> params[r].auto_detect
              /\ params[r].auto_detect =>
                    HasPair(args[r], "--enum-name",
                            IF Provided(params[r].enum_name)
                            THEN params[r].enum_name ELSE "")

\* C10 witness: add_match_arm with auto_detect, an empty enum_name and a
\* function has called the bridge.
C10_Witness ==
    \E r \in Reqs :
        /\ tool[r] = "add_match_arm" /\ pc[r] = "waiting"
        /\ params[r].auto_detect
        /\ params[r].enum_name = ""
        /\ params[r].function = "handle_status"
        /\ HasPair(args[r], "--enum-name", "")
        /\ HasPair(args[r], "--function", "handle_status")

\* --apply, when it is in the argument vector a, is there once, as the last
\* token.
ApplyOnlyLast(a) ==
    \A i \in 1..Len(a) : a[i] = "--apply" => i = Len(a)

\* C11: with auto_detect True add_match_arm forwards --auto-detect,
\* --enum-name with the enum name (the empty string when enum_name is None)
\* and --body with the body, and never --pattern; with auto_detect False it
\* forwards --pattern with the pattern and --body with the body, and never
\* --auto-detect or --enum-name.  In both branches --function and its value
\* are forwarded iff function is non-empty, and --apply, if present, is the
\* last token.
C11_MatchArmBranches ==
    \A r \in Reqs :
        tool[r] = "add_match_arm" =>
            LET a == args[r]
                p == params[r]
            IN  /\ IF p.auto_detect
                   THEN /\ HasFlag(a, "--auto-detect")
                        /\ HasPair(a, "--enum-name",
                                   IF p.enum_name = "None" THEN "" ELSE p.enum_name)
                        /\ HasPair(a, "--body", p.body)
                        /\ ~HasFlag(a, "--pattern")
                        /\ p.pattern \notin Range(a) \ {""}
                   ELSE /\ HasPair(a, "--pattern", p.pattern)
                        /\ HasPair(a, "--body", p.body)
                        /\ ~HasFlag(a, "--auto-detect")
                        /\ ~HasFlag(a, "--enum-name")
                        /\ p.enum_name \notin Range(a) \ {""}
                /\ HasFlag(a, "--function") <=> Provided(p.function)
                /\ Provided(p.function) => HasPair(a, "--function", p.function)
                /\ ApplyOnlyLast(a)
                /\ HasFlag(a, "--apply") <=> p.apply

\* C11 witness: add_match_arm with auto_detect, a pattern, an enum name, a
\* function and apply has called the bridge.
C11_Witness ==
    \E r \in Reqs :
        /\ tool[r] = "add_match_arm" /\ pc[r] = "waiting"
        /\ params[r].auto_detect /\ params[r].apply
        /\ params[r].pattern = "Status::Archived"
        /\ params[r].enum_name = "Status"
        /\ params[r].function = "handle_status"
        /\ args[r] = <<"add-match-arm", "--path", "src/handler.rs", "--auto-detect",
                       "--enum-name", "Status", "--body", "todo!()",
                       "--function", "handle_status", "--apply">>

(***************************************************************************)
(* One blocking invocation per call                                        *)
(***************************************************************************)
Finished(r) == pc[r] \in {"done", "propagated"}

Slot(q) ==
    <<pc[q], tool[q], params[q], args[q], cmd[q], invoked[q], spawned[q],
      child[q], exc[q], result[q], response[q]>>

\* The argument list tool t builds from its parameters p.
ArgsOf(t, p) ==
    CASE t = "inspect_struct_literals" -> inspect_struct_literals_args(p)
      [] t = "inspect_match_arms" -> inspect_match_arms_args(p)
      [] t = "inspect_enum_usage" -> inspect_enum_usage_args(p)
      [] t = "inspect_macro_calls" -> inspect_macro_calls_args(p)
      [] t = "add_struct_field" -> add_struct_field_args(p)
      [] t = "update_struct_field" -> update_struct_field_args(p)
      [] t = "add_enum_variant" -> add_enum_variant_args(p)
      [] t = "rename_enum_variant" -> rename_enum_variant_args(p)
      [] t = "add_match_arm" -> add_match_arm_args(p)
      [] t = "transform" -> transform_args(p)
      [] t = "add_derive" -> add_derive_args(p)
      [] t = "show_history" -> show_history_args(p)
      [] t = "revert_operation" -> revert_operation_args(p)
      [] OTHER -> p.args

\* What request r answers when it is served alone: a function of its own
\* parameters and of the outcome of its own child.
AloneResult(r) ==
    IF exc[r] # NoExc
    THEN ResultOfException(exc[r].kind, exc[r].msg)
    ELSE ResultOfChild(child[r].returncode, child[r].stdout, child[r].stderr)

OwnOutcome(r) ==
    /\ tool[r] # NoTool =>
          /\ args[r] = ArgsOf(tool[r], params[r])
          /\ spawned[r] <= 1
          /\ spawned[r] = 1 => cmd[r] = <<"rs-hack">> \o args[r]
    /\ Returned(r) =>
          /\ result[r] = AloneResult(r)
          /\ response[r] = Response(tool[r], params[r], AloneResult(r))
    /\ ~Returned(r) => (result[r] = NoResult /\ response[r] = <<>>)

\* C13: with two requests interleaved in every way, each request has its
\* own child, its argument vector is the one its own parameters give, and
\* its result and response are the ones its own parameters and its own
\* child's exit code, stdout and stderr (or its own exception) give when it
\* is served alone; two requests with the same inputs answer the same; and
\* no step of one request changes anything held for another.
C13_Isolation ==
    /\ [](\A r \in DOMAIN pc : OwnOutcome(r))
    /\ [](\A r, q \in DOMAIN pc :
             (/\ tool[r] = tool[q] /\ params[r] = params[q]
              /\ child[r] = child[q] /\ exc[r] = exc[q]
              /\ Returned(r) /\ Returned(q))
             => (/\ args[r] = args[q]
                 /\ result[r] = result[q]
                 /\ response[r] = response[q]))
    /\ [][\E r \in DOMAIN pc :
             \A q \in DOMAIN pc \ {r} : Slot(q)' = Slot(q)]_vars

\* C13 witness: one request hangs on its child while the other, started
\* after it, has already answered a failure of its own child.
C13_Witness ==
    \E r, q \in DOMAIN pc :
        /\ r # q
        /\ pc[r] = "waiting" /\ tool[r] = "add_enum_variant"
        /\ Failed(q) /\ tool[q] = "inspect_struct_literals"
        /\ child[q] # NoChild /\ child[q].returncode = 1

(***************************************************************************)
(* Decoded data and the tools                                              *)
(***************************************************************************)
HasData(r) == Succeeded(r) /\ "data" \in DOMAIN result[r]

Opens == {"[", "{"}
Closes == {"]", "}"}
Layout == {"\n", " "}
NotLayout(c) == c \notin Layout

\* Containers open after the first i pieces of text.
Depth(text, i) ==
    Cardinality({j \in 1..i : text[j] \in Opens})
    - Cardinality({j \in 1..i : text[j] \in Closes})

\* text is the value v written as JSON, one item per line, each line
\* indented by two spaces per enclosing container, empty containers closed
\* at once.
IsIndent2(text, v) ==
    LET compact == SelectSeq(text, NotLayout)
    IN  /\ IsJson(compact) /\ ValueOf(compact) = v
        /\ \A i \in 1..Len(text) :
              /\ text[i] = "\n" =>
                    \E k \in 0..(Len(text) - i - 1) :
                        /\ \A j \in (i + 1)..(i + k) : text[j] = " "
                        /\ text[i + k + 1] \notin Layout
                        /\ (i > 1 /\ text[i - 1] \in Opens) =>
                              text[i + k + 1] \notin Closes
                        /\ k = 2 * (Depth(text, i)
                                    - (IF text[i + k + 1] \in Closes THEN 1 ELSE 0))
              /\ text[i] = " " => (i > 1 /\ text[i - 1] \in Layout)
              /\ (text[i] \in Opens /\ i < Len(text)) =>
                    text[i + 1] \in Closes \cup {"\n"}
              /\ (text[i] \in Closes /\ i > 1) =>
                    (text[i - 1] \in Opens \/ text[i - 1] \in Layout)
              /\ (text[i] \in Closes /\ i > 1 /\ text[i - 1] \in Opens) =>
                    (text[i - 1] = "[") = (text[i] = "]")

BannerOf(t) ==
    IF t = "add_struct_field"
    THEN "DRY RUN - Preview of changes:\n"
    ELSE "DRY RUN - Preview:\n"

\* C14: when the bridge returns success with decoded data, an inspect_* tool
\* answers the data written as JSON with 2-space indentation; every other
\* tool answers as on empty output and nothing of the data: an apply-capable
\* tool its banner followed by the reminder when apply is False and its
\* confirmation when apply is True, show_history 'No history available',
\* revert_operation 'Successfully reverted operation <run_id>'.
C14_DataOnlyThroughInspect ==
    \A r \in Reqs :
        (Called(r) /\ HasData(r)) =>
            /\ tool[r] \in InspectTools =>
                  IsIndent2(response[r], result[r].data)
            /\ tool[r] \in ApplyTools =>
                  IF params[r].apply
                  THEN response[r] \in Confirmations(tool[r], params[r])
                  ELSE response[r] = <<BannerOf(tool[r]), Reminder>>
            /\ tool[r] \in {"show_history", "revert_operation"} =>
                  response[r] \in Confirmations(tool[r], params[r])
            /\ tool[r] \notin InspectTools =>
                  Range(response[r]) \cap (Opens \cup Closes) = {}

\* C14 witness: an applied add_enum_variant got a nested array as data and
\* answered its confirmation.
C14_Witness ==
    \E r \in Reqs :
        /\ tool[r] = "add_enum_variant" /\ params[r].apply
        /\ HasData(r)
        /\ result[r].data = JList(<<JList(<<>>)>>)
        /\ response[r] = <<"Successfully added enum variant">>

====
